---- MODULE Spec2Model ----
(***************************************************************************)
(* Model of the AST engine of Rebecca (src/src/Tree.c): nodes, trees, the  *)
(* builder operations AddChild, Parent, InsertParent, AppendTree, the node *)
(* constructors, and the two passes of the graphviz export.                *)
(*                                                                         *)
(* Pointers are node indices, NULL is 0; a node's id is its address, that  *)
(* is its index.  A failed assert() ends the process with status           *)
(* "aborted".  A load or store through NULL traps on the hosted targets    *)
(* the program builds for and ends the process with status "fault"; a read *)
(* past the end of a children array yields an arbitrary pointer.  No       *)
(* operation runs once the process has ended.                              *)
(*                                                                         *)
(* AppendTree's loop need not terminate, so the call is three actions:     *)
(* AppendTreeBegin, AppendTreeIter (one iteration), AppendTreeEnd.  Every  *)
(* other call is one action.                                               *)
(***************************************************************************)
EXTENDS Integers, Sequences, FiniteSets, TLC

\* ---------------------------------------------------------------- bounds
\* Size of the node pool (calloc succeeds MaxNodes times).
MaxNodes == 5
\* Longest children array ArrayAdd may produce.
MaxChildren == 3

\* Number of AppendTree calls in one run.
MaxAppends == 1

\* ------------------------------------------------------------- constants
NULL == 0
NodeIds == 1..MaxNodes
TreeIds == {1, 2}

\* (char *)NULL
NullTxt == "<NULL>"

\* The token types the model draws from (subset of enum TokenType).
TokenTypes == {"TOKEN_PLUS"}

\* enum TokenType, whole.
AllTokenTypes ==
  {"TOKEN_UNKNOWN", "TOKEN_LEFT_PARENTHESIS", "TOKEN_RIGHT_PARENTHESIS",
   "TOKEN_LEFT_BRACKET", "TOKEN_RIGHT_BRACKET", "TOKEN_LEFT_BRACE",
   "TOKEN_RIGHT_BRACE", "TOKEN_COLON", "TOKEN_DOT", "TOKEN_COMMA",
   "TOKEN_STAR", "TOKEN_SLASH", "TOKEN_BACK_SLASH", "TOKEN_PERCENT",
   "TOKEN_HASHTAG", "TOKEN_PLUS", "TOKEN_PLUSPLUS", "TOKEN_MINUS",
   "TOKEN_LL", "TOKEN_GG", "TOKEN_PIPE", "TOKEN_PIPEPIPE", "TOKEN_CARET",
   "TOKEN_TILDE", "TOKEN_QUESTION", "TOKEN_EXCLAMATION", "TOKEN_EQ",
   "TOKEN_L", "TOKEN_G", "TOKEN_LEQ", "TOKEN_GEQ", "TOKEN_EQEQ",
   "TOKEN_EXCLAMATION_EQ", "TOKEN_BREAK", "TOKEN_CONTINUE", "TOKEN_CLASS",
   "TOKEN_STRUCT", "TOKEN_ELSE", "TOKEN_FALSE", "TOKEN_CYCLE", "TOKEN_IF",
   "TOKEN_LOAD", "TOKEN_NULL", "TOKEN_RETURN", "TOKEN_STATIC", "TOKEN_THIS",
   "TOKEN_TRUE", "TOKEN_PRIVATE", "TOKEN_PUBLIC", "TOKEN_NAME",
   "TOKEN_NUMBER", "TOKEN_COMP", "TOKEN_UNDERLINE", "TOKEN_EOF"}

\* The values of PrsrNdType that CheckIfRuleName tells apart; "NONE" is the
\* value calloc leaves.
NamedRoles ==
  {"VAR_NAME", "RULE_NAME", "RULE_NAME_REFERENCE", "VAR_NAME_REFERENCE"}

\* Tokens the lexer hands to CreateNode.
Tokens == {[type |-> "TOKEN_NAME", txt |-> "a"]}

\* Canonical text of a token type.
TranslateTokenType(type) ==
  CASE type = "TOKEN_PLUS" -> "+"
    [] type = "TOKEN_EQ"   -> "="
    [] type = "TOKEN_EOF"  -> "EOF"
    [] type = "TOKEN_NAME" -> "name"
    [] OTHER               -> "unknown"

\* ---------------------------------------------------------------- arrays
\* A Node's 'children' field: a NULL pointer, or an Array with its data.
NullArray == [alloc |-> FALSE, data |-> <<>>]
ArrayCtor == [alloc |-> TRUE, data |-> <<>>]
ArrayAdd(a, x) == [a EXCEPT !.data = Append(@, x)]

\* calloc'ed Node with calloc'ed Token (type 0 is TOKEN_UNKNOWN, txt NULL).
ZeroNode ==
  [alloc    |-> FALSE,
   token    |-> [type |-> "TOKEN_UNKNOWN", txt |-> NullTxt,
                 parser_type |-> "NONE"],
   children |-> NullArray,
   parent   |-> NULL]

\* calloc'ed Tree.
ZeroTree == [root |-> NULL, current |-> NULL, size |-> 0]

VARIABLES
  tree,    \* tree[t]  : [root, current, size]
  node,    \* node[n]  : [alloc, token, children, parent]
  status,  \* "running", "aborted" (assert failed) or "fault" (bad access)
  frame,   \* the AppendTree call in progress, or NoFrame
  out,     \* content of ../graph.dot: node records and edge records
  appends  \* number of AppendTree calls so far

vars == <<tree, node, status, frame, out, appends>>

\* first, second, second_cur and cur_child are AppendTree's own; first_cur,
\* first_kids and second_kids record first->current and the two children
\* arrays as they were on entry, for stating what the call has done.
NoFrame == [active |-> FALSE, first |-> NULL, second |-> NULL,
            second_cur |-> NULL, cur_child |-> 0,
            first_cur |-> NULL, first_kids |-> <<>>, second_kids |-> <<>>]

NoFile == [written |-> FALSE, tree |-> NULL, nodes |-> <<>>, edges |-> <<>>]

\* The heap an operation works on, and its write-back.
Heap == [tree |-> tree, node |-> node, status |-> status]
Commit(h) == /\ tree' = h.tree
             /\ node' = h.node
             /\ status' = h.status

Running(h) == h.status = "running"
Abort(h) == [h EXCEPT !.status = "aborted"]
Fault(h) == [h EXCEPT !.status = "fault"]

\* ------------------------------------------------------- node allocation
Allocated(h) == {n \in NodeIds : h.node[n].alloc}
Unallocated(h) == NodeIds \ Allocated(h)

\* The address calloc returns: the lowest free cell of the pool.
NextNode(h) == CHOOSE n \in Unallocated(h) : \A m \in Unallocated(h) : n <= m

Children(h, n) == h.node[n].children.data

\* The children of n, none for a NULL n.
KidsOrNone(h, n) == IF n = NULL THEN <<>> ELSE Children(h, n)

Range(s) == {s[i] : i \in 1..Len(s)}

\* A node no tree and no node refers to: what a constructor just returned.
Fresh(h, n) ==
  /\ h.node[n].alloc
  /\ h.node[n].parent = NULL
  /\ ~h.node[n].children.alloc
  /\ \A t \in TreeIds : h.tree[t].root # n /\ h.tree[t].current # n
  /\ \A m \in NodeIds : n \notin Range(Children(h, m))
  /\ \A m \in NodeIds : h.node[m].parent # n

FreshNodes(h) == {n \in NodeIds : Fresh(h, n)}

\* Node *NodeCtor()
NodeCtor(h) ==
  [h EXCEPT !.node[NextNode(h)] = [ZeroNode EXCEPT !.alloc = TRUE]]

\* Node *CreateNodeByType(Tree *t, TokenType type)
CreateNodeByType(h, t, type) ==
  LET new_node == NextNode(h)
      h1 == NodeCtor(h)
  IN [h1 EXCEPT !.node[new_node].token.txt = TranslateTokenType(type),
                !.node[new_node].token.type = type,
                !.tree[t].size = @ + 1]

\* CreateNode without the increment of t->size.
CreateNodeUncounted(h, t, token) ==
  LET new_node == NextNode(h)
      h1 == NodeCtor(h)
  IN [h1 EXCEPT !.node[new_node].token.txt = token.txt,
                !.node[new_node].token.type = token.type]

\* Node *CreateNode(Tree *t, Token *token)
CreateNode(h, t, token) ==
  LET new_node == NextNode(h)
      h1 == NodeCtor(h)
  IN [h1 EXCEPT !.node[new_node].token.txt = token.txt,
                !.node[new_node].token.type = token.type,
                !.tree[t].size = @ + 1]

\* The parser's tag on the token of node n: n->token->parser_type = role.
SetParserType(h, n, role) ==
  [h EXCEPT !.node[n].token.parser_type = role]

\* --------------------------------------------------------- tree builders
\* Node *AddChild(Tree *t, Node *new_child)
AddChild(h, t, new_child) ==
  IF ~Running(h) THEN h
  ELSE IF t = NULL \/ new_child = NULL THEN Abort(h)
  ELSE IF h.node[new_child].token.txt = NullTxt THEN Abort(h)
  ELSE IF h.tree[t].current = NULL
    THEN [h EXCEPT !.tree[t].root = new_child,
                   !.tree[t].current = new_child]
    ELSE LET cur == h.tree[t].current
             arr == IF h.node[cur].children.alloc
                      THEN h.node[cur].children
                      ELSE ArrayCtor
             added == ArrayAdd(arr, new_child)
             last == added.data[Len(added.data)]
         IN [h EXCEPT !.node[cur].children = added,
                      !.node[last].parent = cur,
                      !.tree[t].current = new_child]

\* Parent that climbs all the way to the root.
ParentToRoot(h, t) ==
  IF ~Running(h) THEN h
  ELSE IF h.tree[t].current = NULL THEN Fault(h)
  ELSE [h EXCEPT !.tree[t].current = h.tree[t].root]

\* void Parent(Tree *t)
Parent(h, t) ==
  IF ~Running(h) THEN h
  ELSE IF h.tree[t].current = NULL THEN Fault(h)
  ELSE [h EXCEPT !.tree[t].current = h.node[h.tree[t].current].parent]

\* InsertParent that overwrites the first slot of the old parent.
InsertParentFirstSlot(h, t, n) ==
  LET old_current == h.tree[t].current IN
  IF ~Running(h) THEN h
  ELSE IF old_current = NULL THEN Fault(h)
  ELSE
    LET parent == h.node[old_current].parent
        arr == h.node[parent].children
        \* lines 73-79: overwrite the first slot of the old parent
        h1 == IF parent = NULL THEN h
              ELSE IF ~arr.alloc \/ Len(arr.data) = 0 THEN Fault(h)
              ELSE [h EXCEPT !.node[parent].children.data[1] = n,
                             !.node[n].parent = parent]
        \* lines 81-82
        h2 == IF Running(h1) THEN [h1 EXCEPT !.tree[t].current = n] ELSE h1
        h3 == AddChild(h2, t, old_current)
        \* lines 84-85
        h4 == IF Running(h3) THEN [h3 EXCEPT !.node[old_current].parent = n]
              ELSE h3
        h5 == Parent(h4, t)
    IN \* lines 87-89
       IF Running(h5) /\ old_current = h5.tree[t].root
         THEN [h5 EXCEPT !.tree[t].root = n]
         ELSE h5

\* void InsertParent(Tree *t, Node *n)
InsertParent(h, t, n) ==
  LET old_current == h.tree[t].current IN
  IF ~Running(h) THEN h
  ELSE IF old_current = NULL THEN Fault(h)
  ELSE
    LET parent == h.node[old_current].parent
        arr == h.node[parent].children
        \* lines 73-79: overwrite the last slot of the old parent
        h1 == IF parent = NULL THEN h
              ELSE IF ~arr.alloc \/ Len(arr.data) = 0 THEN Fault(h)
              ELSE [h EXCEPT !.node[parent].children.data[Len(arr.data)] = n,
                             !.node[n].parent = parent]
        \* lines 81-82
        h2 == IF Running(h1) THEN [h1 EXCEPT !.tree[t].current = n] ELSE h1
        h3 == AddChild(h2, t, old_current)
        \* lines 84-85
        h4 == IF Running(h3) THEN [h3 EXCEPT !.node[old_current].parent = n]
              ELSE h3
        h5 == Parent(h4, t)
    IN \* lines 87-89
       IF Running(h5) /\ old_current = h5.tree[t].root
         THEN [h5 EXCEPT !.tree[t].root = n]
         ELSE h5

\* TreeCtor that creates the node and does not add it.
TreeCtorUnrooted(h, t, type) ==
  CreateNodeByType(h, t, type)

\* Tree *TreeCtor(TokenType type), building in the calloc'ed cell t
TreeCtor(h, t, type) ==
  LET new_node == NextNode(h)
  IN AddChild(CreateNodeByType(h, t, type), t, new_node)

\* Node *GetChild(Node *n, uint64_t idx)
GetChild(h, n, idx) == h.node[n].children.data[idx + 1]

\* AppendTree, lines 235-241: second_cur and the scratch copy of its
\* children (the copy is never read again).  Returns the heap; the call
\* proceeds to the loop of line 243 when the heap is still running.
AppendTreeEnter(h, second) ==
  LET second_cur == h.tree[second].current IN
  IF second_cur = NULL THEN Fault(h)
  ELSE IF ~h.node[second_cur].children.alloc THEN Fault(h)
  ELSE h

\* AppendTree, lines 244-245 of one iteration of the loop.
AppendTreeAdd(h, f) ==
  Parent(AddChild(h, f.first, GetChild(h, f.second_cur, f.cur_child)),
         f.first)

\* AppendTree, line 247 when the slot read exists.
AppendTreeStamp(h, f) ==
  LET cur == h.tree[f.first].current
  IN [h EXCEPT !.node[GetChild(h, cur, f.cur_child)].parent = cur]

\* AppendTree that leaves second's cursor on first's root.
AppendTreeExitToRoot(h, f) ==
  [h EXCEPT !.tree[f.second].current = h.tree[f.first].root]

\* AppendTree, line 252.
AppendTreeExit(h, f) ==
  [h EXCEPT !.tree[f.second].current = h.tree[f.first].current]

\* ---------------------------------------------------------------- export
\* CellBordersFormat without the case of TOKEN_EQ.
CellBordersFormatNoEq(t) ==
  IF t \in {"TOKEN_COLON", "TOKEN_SEMICOLON", "TOKEN_DOUBLE_QUOTE",
            "TOKEN_SINGLE_QUOTE", "TOKEN_EOF"} THEN "none"
  ELSE IF t = "TOKEN_NAME" THEN "rectangle"
  ELSE "diamond"

\* const char *CellBordersFormat(TokenType t)
CellBordersFormat(t) ==
  IF t \in {"TOKEN_COLON", "TOKEN_SEMICOLON", "TOKEN_DOUBLE_QUOTE",
            "TOKEN_SINGLE_QUOTE", "TOKEN_EOF", "TOKEN_EQ"} THEN "none"
  ELSE IF t = "TOKEN_NAME" THEN "rectangle"
  ELSE "diamond"

\* const char *CheckIfRuleName(PrsrNdType type)
CheckIfRuleName(type) ==
  CASE type = "VAR_NAME"            -> "yellow"
    [] type = "RULE_NAME"           -> "cyan"
    [] type = "RULE_NAME_REFERENCE" -> "red"
    [] type = "VAR_NAME_REFERENCE"  -> "green"
    [] OTHER                        -> "black"

\* Nodes reachable from n by child links (n included).
RECURSIVE ReachStep(_, _, _)
ReachStep(h, seen, k) ==
  LET more == seen \cup UNION {Range(Children(h, m)) : m \in seen}
  IN IF k = 0 \/ more = seen THEN seen ELSE ReachStep(h, more, k - 1)

Reach(h, n) == IF n = NULL THEN {} ELSE ReachStep(h, {n}, MaxNodes)

\* Proper descendants of n.
Below(h, n) ==
  UNION {Reach(h, c) : c \in Range(Children(h, n))}

\* The recursion of PrintNode / ConnectNode from n never returns.
Cyclic(h, n) == \E m \in Reach(h, n) : m \in Below(h, m)

\* The record PrintNode writes for node n (NODE_FMT).
NodeRecord(h, n) ==
  LET tok == h.node[n].token
  IN [id    |-> n,
      shape |-> CellBordersFormat(tok.type),
      color |-> CheckIfRuleName(tok.parser_type),
      txt   |-> tok.txt,
      type  |-> IF tok.txt = TranslateTokenType(tok.type)
                  THEN ""
                  ELSE TranslateTokenType(tok.type)]

\* void PrintNode(FILE *f, Node *n): the records written, in order.
RECURSIVE PrintNode(_, _)
PrintNode(h, n) ==
  LET kids == Children(h, n)
      RECURSIVE Sub(_)
      Sub(cur_child) ==
        IF cur_child >= Len(kids) THEN <<>>
        ELSE PrintNode(h, GetChild(h, n, cur_child)) \o Sub(cur_child + 1)
  IN <<NodeRecord(h, n)>> \o
     (IF h.node[n].children.alloc THEN Sub(0) ELSE <<>>)

\* ConnectNode that descends into a child right after writing its edge.
RECURSIVE ConnectNodeDepthFirst(_, _)
ConnectNodeDepthFirst(h, n) ==
  LET kids == Children(h, n)
      RECURSIVE Sub(_)
      Sub(cur_child) ==
        IF cur_child >= Len(kids) THEN <<>>
        ELSE <<<<n, GetChild(h, n, cur_child)>>>>
             \o ConnectNodeDepthFirst(h, GetChild(h, n, cur_child))
             \o Sub(cur_child + 1)
  IN IF h.node[n].children.alloc THEN Sub(0) ELSE <<>>

\* void ConnectNode(FILE *f, Node *n): the edges written, in order.
RECURSIVE ConnectNode(_, _)
ConnectNode(h, n) ==
  LET kids == Children(h, n)
      own == [i \in 1..Len(kids) |-> <<n, GetChild(h, n, i - 1)>>]
      RECURSIVE Sub(_)
      Sub(cur_child) ==
        IF cur_child >= Len(kids) THEN <<>>
        ELSE ConnectNode(h, GetChild(h, n, cur_child)) \o Sub(cur_child + 1)
  IN IF h.node[n].children.alloc THEN own \o Sub(0) ELSE <<>>

\* void DebugTree(Tree *t): how the call ends.
\*   assert in PrintNode on a NULL root; strcmp on a NULL txt and a
\*   recursion that never returns are bad accesses.
DebugTreeStatus(h, t) ==
  IF h.tree[t].root = NULL THEN "aborted"
  ELSE IF \/ Cyclic(h, h.tree[t].root)
          \/ \E m \in Reach(h, h.tree[t].root) : h.node[m].token.txt = NullTxt
    THEN "fault"
  ELSE "running"

\* DebugTree with the file opened for appending.
DebugTreeAppending(h, t) ==
  IF DebugTreeStatus(h, t) = "running"
    THEN [written |-> TRUE, tree |-> t,
          nodes |-> out.nodes \o PrintNode(h, h.tree[t].root),
          edges |-> out.edges \o ConnectNode(h, h.tree[t].root)]
    ELSE [written |-> FALSE, tree |-> t, nodes |-> <<>>, edges |-> <<>>]

\* void DebugTree(Tree *t): the file it leaves.
DebugTree(h, t) ==
  IF DebugTreeStatus(h, t) = "running"
    THEN [written |-> TRUE, tree |-> t,
          nodes |-> PrintNode(h, h.tree[t].root),
          edges |-> ConnectNode(h, h.tree[t].root)]
    ELSE [written |-> FALSE, tree |-> t, nodes |-> <<>>, edges |-> <<>>]

\* ---------------------------------------------------------------- state
Init ==
  /\ tree = [t \in TreeIds |-> ZeroTree]
  /\ node = [n \in NodeIds |-> ZeroNode]
  /\ status = "running"
  /\ frame = NoFrame
  /\ out = NoFile
  /\ appends = 0

\* Between two calls of the caller: no call in progress, process alive.
Idle == status = "running" /\ ~frame.active

\* ArrayAdd on the children of n stays within the bound.
Room(n) == n # NULL => Len(Children(Heap, n)) < MaxChildren

\* The caller hands a node to a builder before it creates the next one.
CanCreate == /\ Unallocated(Heap) # {}
             /\ FreshNodes(Heap) = {}

DoNodeCtor ==
  /\ Idle /\ CanCreate
  /\ Commit(NodeCtor(Heap))
  /\ UNCHANGED <<frame, out, appends>>

DoCreateNodeByType(t, type) ==
  /\ Idle /\ CanCreate
  /\ Commit(CreateNodeByType(Heap, t, type))
  /\ UNCHANGED <<frame, out, appends>>

DoCreateNode(t, token) ==
  /\ Idle /\ CanCreate
  /\ Commit(CreateNode(Heap, t, token))
  /\ UNCHANGED <<frame, out, appends>>

DoTreeCtor(t, type) ==
  /\ Idle
  /\ Unallocated(Heap) # {}
  /\ tree[t] = ZeroTree
  /\ Commit(TreeCtor(Heap, t, type))
  /\ UNCHANGED <<frame, out, appends>>

DoAddChild(t, new_child) ==
  /\ Idle
  /\ Commit(AddChild(Heap, t, new_child))
  /\ UNCHANGED <<frame, out, appends>>

DoParent(t) ==
  /\ Idle
  /\ Commit(Parent(Heap, t))
  /\ UNCHANGED <<frame, out, appends>>

DoInsertParent(t, n) ==
  /\ Idle
  /\ Commit(InsertParent(Heap, t, n))
  /\ UNCHANGED <<frame, out, appends>>

\* The parser tags one token of the tree it builds.
DoSetParserType(n, role) ==
  /\ Idle
  /\ node[n].alloc
  /\ \A m \in NodeIds : node[m].token.parser_type = "NONE"
  /\ Commit(SetParserType(Heap, n, role))
  /\ UNCHANGED <<frame, out, appends>>

\* AppendTree(first, second) up to the loop of line 243.
AppendTreeBegin(first, second) ==
  /\ Idle
  /\ appends < MaxAppends
  /\ appends' = appends + 1
  /\ Commit(AppendTreeEnter(Heap, second))
  /\ frame' = [active |-> TRUE, first |-> first, second |-> second,
               second_cur |-> tree[second].current, cur_child |-> 0,
               first_cur |-> tree[first].current,
               first_kids |-> KidsOrNone(Heap, tree[first].current),
               second_kids |-> KidsOrNone(Heap, tree[second].current)]
  /\ UNCHANGED out

\* One iteration of the loop of lines 243-248.
AppendTreeIter ==
  /\ frame.active /\ status = "running"
  /\ frame.cur_child < Len(Children(Heap, frame.second_cur))
  /\ Room(tree[frame.first].current)
  /\ LET h == AppendTreeAdd(Heap, frame)
         cur == h.tree[frame.first].current
     IN IF ~Running(h) THEN Commit(h)
        ELSE IF cur = NULL \/ ~h.node[cur].children.alloc THEN Commit(Fault(h))
        ELSE IF frame.cur_child < Len(Children(h, cur))
          THEN Commit(AppendTreeStamp(h, frame))
          \* read past the end of the array: the pointer found there is
          \* arbitrary, the write through it faults or lands on some node
          ELSE \/ Commit(Fault(h))
               \/ \E m \in Allocated(h) :
                    Commit([h EXCEPT !.node[m].parent = cur])
  /\ frame' = [frame EXCEPT !.cur_child = @ + 1]
  /\ UNCHANGED <<out, appends>>

\* Loop exit and line 252.
AppendTreeEnd ==
  /\ frame.active /\ status = "running"
  /\ frame.cur_child >= Len(Children(Heap, frame.second_cur))
  /\ Commit(AppendTreeExit(Heap, frame))
  /\ frame' = NoFrame
  /\ UNCHANGED <<out, appends>>

DoDebugTree(t) ==
  /\ Idle
  /\ out' = DebugTree(Heap, t)
  /\ status' = DebugTreeStatus(Heap, t)
  /\ UNCHANGED <<tree, node, frame, appends>>

\* The calls of a caller that links the lexer's tokens into the trees of T.
Link(T) ==
  \/ \E t \in T, token \in Tokens : DoCreateNode(t, token)
  \/ \E t \in T, n \in FreshNodes(Heap) : DoAddChild(t, n)
  \/ \E t \in T, n \in FreshNodes(Heap) : DoInsertParent(t, n)

\* The same, with TreeCtor, synthesized nodes, bare nodes, NULL arguments
\* and a cursor that moves up from any node.
Build(T) ==
  \/ Link(T)
  \/ \E t \in T : DoParent(t)
  \/ \E t \in T, type \in TokenTypes : DoTreeCtor(t, type)
  \/ DoNodeCtor
  \/ \E t \in T, type \in TokenTypes : DoCreateNodeByType(t, type)
  \/ \E n \in FreshNodes(Heap) \cup {NULL} : DoAddChild(NULL, n)
  \/ \E t \in T : DoAddChild(t, NULL)

\* The cursor of t is on a node that has a parent.
CanAscend(t) ==
  /\ tree[t].current # NULL
  /\ node[tree[t].current].parent # NULL

Splice ==
  \/ \E first \in TreeIds, second \in TreeIds : AppendTreeBegin(first, second)
  \/ AppendTreeIter
  \/ AppendTreeEnd

\* One tree under construction.
Next == Build({1})

Spec == Init /\ [][Next]_vars

\* Two trees under construction by a caller that tracks its depth, spliced
\* with AppendTree.
NextSplice ==
  \/ Link(TreeIds)
  \/ \E t \in TreeIds : CanAscend(t) /\ DoParent(t)
  \/ Splice

SpecSplice == Init /\ [][NextSplice]_vars

\* One tree under construction by a caller that tracks its depth, exported
\* once it is built.
NextExport ==
  \/ /\ ~out.written
     /\ \/ Link({1})
        \/ CanAscend(1) /\ DoParent(1)
        \/ \E type \in TokenTypes : DoTreeCtor(1, type)
        \/ \E type \in TokenTypes : DoCreateNodeByType(1, type)
        \/ DoNodeCtor
  \/ DoDebugTree(1)

SpecExport == Init /\ [][NextExport]_vars

\* One tree with a root of any token type and NAME nodes below it, one
\* token tagged by the parser, exported once it is built.
NextClassify ==
  \/ /\ ~out.written
     /\ \/ \E type \in AllTokenTypes : DoTreeCtor(1, type)
        \/ \E token \in Tokens : DoCreateNode(1, token)
        \/ \E n \in FreshNodes(Heap) : DoAddChild(1, n)
        \/ CanAscend(1) /\ DoParent(1)
        \/ \E n \in NodeIds, role \in NamedRoles : DoSetParserType(n, role)
  \/ DoDebugTree(1)

SpecClassify == Init /\ [][NextClassify]_vars

\* Two trees, each made by TreeCtor or grown from an empty one, under
\* construction by a caller that tracks its depth, spliced with AppendTree.
NextSize ==
  \/ \E t \in TreeIds, type \in TokenTypes : DoTreeCtor(t, type)
  \/ Link(TreeIds)
  \/ \E t \in TreeIds : CanAscend(t) /\ DoParent(t)
  \/ Splice

SpecSize == Init /\ [][NextSize]_vars

\* ------------------------------------------------------------ properties
\* Number of slots of the children of p that hold n.
Occurrences(p, n) ==
  Cardinality({i \in 1..Len(Children(Heap, p)) : Children(Heap, p)[i] = n})

\* C1. Parent-child symmetry: between calls, a node whose parent is P fills
\* exactly one slot of P's children, and every node in the children of P
\* has P as its parent.
ParentChildSymmetry ==
  Idle =>
    \A n \in Allocated(Heap), p \in Allocated(Heap) :
      /\ node[n].parent = p => Occurrences(p, n) = 1
      /\ n \in Range(Children(Heap, p)) => node[n].parent = p

\* C2. Rooting: the first AddChild on an empty tree makes the new node root
\* and current, and an AddChild on a tree that has a root leaves the root.
Rooting ==
  [][\A t \in TreeIds, n \in NodeIds :
       DoAddChild(t, n) /\ status' = "running" =>
         IF tree[t].root = NULL
           THEN tree'[t].root = n /\ tree'[t].current = n
           ELSE tree'[t].root = tree[t].root]_vars

\* C3. Parent with the cursor on the root does not complete: the process
\* ends there, and the tree is not left with a NULL cursor.
ParentOnRootIsFatal ==
  [][\A t \in TreeIds :
       DoParent(t) /\ tree[t].current # NULL /\ tree[t].current = tree[t].root
         => status' # "running"]_vars

\* C4. Cursor reachability: between calls, the cursor of a tree without
\* root is NULL and the cursor of a tree with a root is a node reachable
\* from that root by child links.
CursorReachable ==
  Idle =>
    \A t \in TreeIds :
      IF tree[t].root = NULL
        THEN tree[t].current = NULL
        ELSE tree[t].current \in Reach(Heap, tree[t].root)

\* C5. Strict rooted tree: between calls, no node below a root is its own
\* descendant, and every node below a root other than the root itself
\* fills exactly one slot of exactly one children array.
StrictRootedTree ==
  Idle =>
    \A t \in TreeIds :
      /\ tree[t].root # NULL => ~Cyclic(Heap, tree[t].root)
      /\ \A n \in Reach(Heap, tree[t].root) \ {tree[t].root} :
           /\ Cardinality({p \in NodeIds : n \in Range(Children(Heap, p))}) = 1
           /\ \A p \in NodeIds : Occurrences(p, n) <= 1

\* What InsertParent(t, n) has to leave, X being the cursor before the call
\* and P the parent of X.
InsertParentPost(t, n) ==
  LET X == tree[t].current
      P == node[X].parent
  IN /\ tree'[t].current = n
     /\ node'[n].children = [alloc |-> TRUE, data |-> <<X>>]
     /\ node'[X].parent = n
     /\ node'[X].children = node[X].children
     /\ \A m \in Below(Heap, X) \ {X, n} : node'[m] = node[m]
     /\ IF P = NULL
          THEN /\ node'[n].parent = NULL
               /\ X = tree[t].root => tree'[t].root = n
          ELSE /\ node'[n].parent = P
               /\ Len(Children(Heap, P)) = Len(node'[P].children.data)
               /\ \A i \in 1..Len(Children(Heap, P)) :
                    node'[P].children.data[i] =
                      IF Children(Heap, P)[i] = X THEN n
                      ELSE Children(Heap, P)[i]

\* C6. InsertParent correctness: with the cursor on X, whatever slot of its
\* parent X fills, a completed InsertParent(t, n) puts n in that slot (or
\* makes it the root), leaves X with its subtree as the only child of n,
\* and moves the cursor to n.
InsertParentCorrect ==
  [][\A t \in TreeIds, n \in NodeIds :
       Fresh(Heap, n) /\ DoInsertParent(t, n) /\ status' = "running"
         => InsertParentPost(t, n)]_vars

\* What a completed AppendTree has to leave in the children of the cursor
\* of first.
AppendTreePost ==
  LET F == tree'[frame.first].current
  IN /\ F # NULL
     /\ node'[F].children.data = frame.first_kids \o frame.second_kids
     /\ \A c \in Range(frame.second_kids) : node'[c].parent = F

\* C7. AppendTree conservation: AppendTree on two trees whose cursors are
\* set completes for any number k >= 0 of children of second's cursor, and
\* then the children of first's cursor are the former ones followed by
\* those k nodes in their order, each with first's cursor as parent.
AppendTreeConserves ==
  [][/\ \A first \in TreeIds, second \in TreeIds :
          /\ AppendTreeBegin(first, second)
          /\ first # second
          /\ tree[first].current # NULL /\ tree[second].current # NULL
          => status' = "running"
     /\ AppendTreeEnd /\ frame.first_cur # NULL /\ frame.first # frame.second
          => AppendTreePost]_vars

\* C8. Cursor movement: a completed AddChild(t, n) leaves the cursor on n;
\* a completed Parent(t) from a node other than the root leaves the cursor
\* on that node's parent and changes nothing else.
CursorMovement ==
  [][/\ \A t \in TreeIds, n \in NodeIds :
          DoAddChild(t, n) /\ status' = "running" => tree'[t].current = n
     /\ \A t \in TreeIds :
          DoParent(t) /\ status' = "running" /\ tree[t].current # tree[t].root
          => /\ tree'[t].current = node[tree[t].current].parent
             /\ node' = node
             /\ tree' = [tree EXCEPT ![t].current = tree'[t].current]]_vars

\* C8, its case: the cursor stands on a node below the root that already has
\* two children, so AddChild went down to each and Parent came back up.
CursorMovedUp ==
  /\ Idle
  /\ tree[1].current # NULL
  /\ tree[1].current # tree[1].root
  /\ node[tree[1].current].parent # NULL
  /\ Len(Children(Heap, tree[1].current)) >= 2

\* C9. AddChild with a NULL tree, a NULL child or a child without text ends
\* the process and changes neither tree nor node; no node without text is
\* ever below the root of a tree.
AddChildRejectsIncomplete ==
  [][/\ \A t \in TreeIds \cup {NULL}, n \in NodeIds \cup {NULL} :
          /\ DoAddChild(t, n)
          /\ (t = NULL \/ n = NULL \/ node[n].token.txt = NullTxt)
          => status' = "aborted" /\ tree' = tree /\ node' = node
     /\ status' = "running"
          => \A t \in TreeIds :
               \A n \in Reach([tree |-> tree', node |-> node'], tree'[t].root) :
                 node'[n].token.txt # NullTxt]_vars

\* Position of the first slot of the children of p that holds c.
SlotOf(p, c) ==
  CHOOSE i \in 1..Len(Children(Heap, p)) : Children(Heap, p)[i] = c

\* Edge <<p1, c1>> is due before edge <<p2, c2>>: same source and earlier
\* slot; or p2 lies below p1; or the two sources lie under different children
\* of some node, p1 under the earlier one.
EdgeBefore(e1, e2) ==
  LET p1 == e1[1]
      p2 == e2[1]
  IN IF p1 = p2 THEN SlotOf(p1, e1[2]) < SlotOf(p2, e2[2])
     ELSE \/ p2 \in Below(Heap, p1)
          \/ /\ p1 \notin Below(Heap, p2)
             /\ \E a \in NodeIds :
                  \E u, v \in 1..Len(Children(Heap, a)) :
                    /\ u < v
                    /\ p1 \in Reach(Heap, Children(Heap, a)[u])
                    /\ p2 \in Reach(Heap, Children(Heap, a)[v])

\* C10. Edge export: the edges in the file are the parent-child links below
\* the root of the exported tree, each once and no other, a node's own
\* edges in the order of its children and before the edges of its subtrees.
EdgeExport ==
  out.written =>
    LET root == tree[out.tree].root
        E == out.edges
    IN /\ Range(E) = {<<p, c>> \in NodeIds \X NodeIds :
                        p \in Reach(Heap, root) /\ c \in Range(Children(Heap, p))}
       /\ \A i, j \in 1..Len(E) : i < j => E[i] # E[j] /\ EdgeBefore(E[i], E[j])

\* C10, its case: a '+' root with two NAME leaves has been exported, with
\* two edges from the root and none from the leaves.
PlusWithTwoNames ==
  /\ out.written
  /\ LET root == tree[out.tree].root
     IN /\ node[root].token.type = "TOKEN_PLUS"
        /\ Len(Children(Heap, root)) = 2
        /\ \A c \in Range(Children(Heap, root)) :
             node[c].token.type = "TOKEN_NAME" /\ ~node[c].children.alloc
        /\ out.edges = <<<<root, Children(Heap, root)[1]>>,
                         <<root, Children(Heap, root)[2]>>>>

InsertParentLastSlot ==
  [][\A t \in TreeIds, n \in NodeIds :
       LET X == tree[t].current
           P == node[X].parent
           kids == Children(Heap, P)
       IN /\ Fresh(Heap, n) /\ DoInsertParent(t, n) /\ status' = "running"
          /\ X # NULL /\ P # NULL
          /\ Len(kids) > 0 /\ kids[Len(kids)] = X
          => /\ node'[P].children.data = SubSeq(kids, 1, Len(kids) - 1) \o <<n>>
             /\ node'[n].parent = P
             /\ \A i \in 1..(Len(kids) - 1) :
                  \A m \in Reach(Heap, kids[i]) : node'[m] = node[m]]_vars

\* C13, its case: n stands in the third and last slot of P behind two
\* earlier siblings, above an only child X that was created before n, which
\* only InsertParent brings about.
WrappedLastOfThree ==
  /\ Idle
  /\ \E P \in NodeIds, n \in NodeIds :
       /\ tree[1].current = n
       /\ Len(Children(Heap, P)) = 3
       /\ Children(Heap, P)[3] = n
       /\ node[n].parent = P
       /\ Len(Children(Heap, n)) = 1
       /\ Children(Heap, n)[1] < n
       /\ node[Children(Heap, n)[1]].parent = n
       /\ \A i \in {1, 2} : node[Children(Heap, P)[i]].parent = P

\* C14. AddChild on a tree that has a root: a completed AddChild(t, n) puts
\* n behind the former children of the node the cursor was on, creating the
\* children array when there was none, makes that node the parent of n, and
\* changes no other link of any node.
AddChildAppends ==
  [][\A t \in TreeIds, n \in NodeIds :
       LET cur == tree[t].current
       IN DoAddChild(t, n) /\ status' = "running" /\ tree[t].root # NULL
          => /\ cur # NULL
             /\ node'[cur].children =
                  [alloc |-> TRUE, data |-> Append(Children(Heap, cur), n)]
             /\ node'[cur].parent = node[cur].parent
             /\ node'[n].parent = cur
             /\ node'[n].children = node[n].children
             /\ \A m \in NodeIds \ {cur, n} : node'[m] = node[m]]_vars

Created(nd) == {n \in NodeIds : nd[n].alloc /\ nd[n].token.txt # NullTxt}

\* C16. Size accounting: CreateNode, CreateNodeByType and TreeCtor on t add
\* one to the size of t and leave the size of the other tree; AddChild,
\* Parent, InsertParent and every step of AppendTree leave both sizes; and
\* the sizes of the trees add up to the number of nodes their constructors
\* have made.
SizeAccounting ==
  [][/\ \A t \in TreeIds :
          \/ \E token \in Tokens : DoCreateNode(t, token)
          \/ \E type \in TokenTypes : DoCreateNodeByType(t, type)
          \/ \E type \in TokenTypes : DoTreeCtor(t, type)
          => /\ tree'[t].size = tree[t].size + 1
             /\ \A u \in TreeIds \ {t} : tree'[u].size = tree[u].size
     /\ \/ \E t \in TreeIds, n \in NodeIds : DoAddChild(t, n)
        \/ \E t \in TreeIds, n \in NodeIds : DoInsertParent(t, n)
        \/ \E t \in TreeIds : DoParent(t)
        \/ Splice
        => \A t \in TreeIds : tree'[t].size = tree[t].size
     /\ tree'[1].size + tree'[2].size = Cardinality(Created(node'))]_vars

\* C16, its case: two trees of sizes two and three, one of them made by
\* TreeCtor, after a completed AppendTree.
SizesAfterSplice ==
  /\ Idle
  /\ appends > 0
  /\ tree[1].size = 2 /\ tree[2].size = 3
  /\ tree[1].current = tree[2].current
  /\ \E t \in TreeIds : node[tree[t].root].token.type = "TOKEN_PLUS"

\* Iterations the loop of AppendTree still has to make.
Remaining(nd, f) == Len(nd[f.second_cur].children.data) - f.cur_child

\* C17. AppendTree terminates: on any two trees whose cursors are set, the
\* same tree or the same node included, an iteration of the loop leaves the
\* loop bound, the number of children of second's cursor, as it was, so
\* that every iteration brings the loop one step closer to its exit.
AppendTreeTerminates ==
  [][AppendTreeIter /\ frame.first_cur # NULL /\ status' = "running"
       => /\ Len(node'[frame.second_cur].children.data)
               = Len(node[frame.second_cur].children.data)
          /\ Remaining(node', frame') < Remaining(node, frame)]_vars

\* C18. AppendTree with no child to move: when the cursor of second has no
\* children array, AppendTree(first, second) on two trees whose cursors are
\* set goes on running, and at its end the children of first's cursor are
\* what they were and the cursor of second is the cursor of first.
AppendTreeOfNothing ==
  [][/\ \A first \in TreeIds, second \in TreeIds :
          /\ AppendTreeBegin(first, second)
          /\ tree[first].current # NULL /\ tree[second].current # NULL
          /\ ~node[tree[second].current].children.alloc
          => status' = "running"
     /\ AppendTreeEnd /\ frame.first_cur # NULL /\ frame.second_kids = <<>>
          => /\ tree'[frame.first].current = frame.first_cur
             /\ tree'[frame.second].current = frame.first_cur
             /\ node'[frame.first_cur].children.data = frame.first_kids]_vars

\* C19. TreeCtor: TreeCtor(type) completes and leaves a tree of size 1
\* whose root and cursor are one new node, of the given token type, with
\* the text of that type, without parent and without children; it changes
\* no other node and no other tree.
TreeCtorMakesRoot ==
  [][\A t \in TreeIds :
       tree[t] = ZeroTree /\ tree'[t] # ZeroTree =>
         \A type \in AllTokenTypes :
           DoTreeCtor(t, type)
             => LET new_node == NextNode(Heap)
                IN /\ status' = "running"
                   /\ tree'[t] = [root |-> new_node, current |-> new_node,
                                  size |-> 1]
                   /\ node'[new_node].alloc
                   /\ node'[new_node].token.type = type
                   /\ node'[new_node].token.txt = TranslateTokenType(type)
                   /\ node'[new_node].parent = NULL
                   /\ node'[new_node].children = NullArray
                   /\ \A m \in NodeIds \ {new_node} : node'[m] = node[m]
                   /\ \A u \in TreeIds \ {t} : tree'[u] = tree[u]]_vars

\* C19, its case: the tree is the one an EOF-typed TreeCtor returns.
TreeOfOneEof ==
  /\ Idle
  /\ tree[1].size = 1
  /\ tree[1].root # NULL
  /\ tree[1].current = tree[1].root
  /\ Allocated(Heap) = {tree[1].root}
  /\ node[tree[1].root].token.type = "TOKEN_EOF"
  /\ node[tree[1].root].token.txt = "EOF"
  /\ ~out.written
====
